---- MODULE Spec2Model ----
(***************************************************************************)
(* Model of examples/vector_databases/redis/                               *)
(* Using_Redis_for_embeddings_search.ipynb: index provisioning, the        *)
(* ingestion adapter index_documents and the query adapter search_redis,   *)
(* run against a Redis store with the RediSearch module.                   *)
(*                                                                         *)
(* The notebook is single threaded: every cell and every function call is  *)
(* one action.  The store and the embedding service are the environment:   *)
(* each of their calls either answers or raises, chosen by the action's    *)
(* inputs.                                                                 *)
(*                                                                         *)
(* Numbers.  A Python float is modelled by an integer (every integer below *)
(* 2^53 is a float64).  A distance or a score is an integer number of      *)
(* 1/Scale units.                                                          *)
(***************************************************************************)
EXTENDS Integers, Sequences, FiniteSets, TLC

(* ------------------------------ bounds --------------------------------- *)

\* ids of the dataset rows are 1..MaxId
MaxId == 2
\* rows of the DataFrame handed to one index_documents call
MaxDocs == 3
\* the k of a search_redis call is 1..MaxK
MaxK == 2

(* ------------------------- notebook constants -------------------------- *)

\* VECTOR_DIM = len(article_df['title_vector'][0])
VECTOR_DIM == 2
INDEX_NAME == "embeddings-index"
PREFIX == "doc"
\* DISTANCE_METRIC = "COSINE"  (ex. COSINE, IP, L2): the values the runs set it to
Metrics == {"COSINE", "L2"}
\* search_redis's default return_fields
RETURN_FIELDS == <<"title", "url", "text", "vector_score">>
\* vector_score and the score are counted in units of 1/Scale; round(score, 3)
\* keeps Scale / RoundUnit of them per unit
Scale == 10000
RoundUnit == 10

(* ------------------------------ helpers -------------------------------- *)

Abs(x) == IF x < 0 THEN -x ELSE x

Pow2(n) == 2 ^ n

\* floor(log2(m)) for m >= 1
RECURSIVE FloorLog2(_)
FloorLog2(m) == IF m <= 1 THEN 0 ELSE 1 + FloorLog2(m \div 2)

EmptyMap == [x \in {} |-> x]

Range(s) == {s[i] : i \in DOMAIN s}

\* the sequences over S of length 0..n
SeqsUpTo(S, n) == UNION {[1..m -> S] : m \in 0..n}

(* --------------------- float32 and its byte layout --------------------- *)

\* a conversion to float32 that drops the bits it cannot keep (round toward
\* zero)
Float32Parts_truncating(x) ==
    IF x = 0 THEN [sign |-> 0, exp |-> 0, frac |-> 0]
    ELSE
      LET m  == Abs(x)
          e  == FloorLog2(m)
          sh == e - 23
          q  == IF sh <= 0 THEN m * Pow2(-sh) ELSE m \div Pow2(sh)
      IN [sign |-> IF x < 0 THEN 1 ELSE 0,
          exp  |-> e + 127,
          frac |-> q - Pow2(23)]

\* np.float32(x): the sign, the biased exponent and the 23 fraction bits of the
\* float32 nearest to x (round half to even); x is an integer of magnitude
\* below 2^30.
Float32Parts(x) ==
    IF x = 0 THEN [sign |-> 0, exp |-> 0, frac |-> 0]
    ELSE
      LET m    == Abs(x)
          e    == FloorLog2(m)
          sh   == e - 23
          q    == IF sh <= 0 THEN m * Pow2(-sh) ELSE m \div Pow2(sh)
          r    == IF sh <= 0 THEN 0 ELSE m % Pow2(sh)
          half == IF sh <= 0 THEN 1 ELSE Pow2(sh - 1)
          up   == sh > 0 /\ (r > half \/ (r = half /\ q % 2 = 1))
          q1   == IF up THEN q + 1 ELSE q
          ovf  == q1 = Pow2(24)
      IN [sign |-> IF x < 0 THEN 1 ELSE 0,
          exp  |-> (IF ovf THEN e + 1 ELSE e) + 127,
          frac |-> IF ovf THEN 0 ELSE q1 - Pow2(23)]

\* the four bytes of one float32, least significant first (native order of the
\* little-endian hosts the notebook runs on)
Float32Bytes(x) ==
    LET p == Float32Parts(x)
    IN << p.frac % 256,
          (p.frac \div 256) % 256,
          (p.exp % 2) * 128 + p.frac \div 65536,
          p.sign * 128 + p.exp \div 2 >>

\* np.array(v, dtype=np.float32).tobytes(): four bytes an element, no header
RECURSIVE tobytes(_)
tobytes(v) == IF v = << >> THEN << >>
              ELSE Float32Bytes(Head(v)) \o tobytes(Tail(v))

\* the value of the float32 held in four bytes (an integer for the blobs made
\* from integers)
Float32Value(b) ==
    LET sign == b[4] \div 128
        exp  == (b[4] % 128) * 2 + b[3] \div 128
        frac == (b[3] % 128) * 65536 + b[2] * 256 + b[1]
        mant == Pow2(23) + frac
        mag  == IF exp = 0 /\ frac = 0 THEN 0
                ELSE IF exp >= 150 THEN mant * Pow2(exp - 150)
                ELSE mant \div Pow2(150 - exp)
    IN IF sign = 1 THEN -mag ELSE mag

\* a FLOAT32 blob read as the store reads it: Len(blob) \div 4 floats
RECURSIVE frombuffer(_)
frombuffer(blob) ==
    IF Len(blob) < 4 THEN << >>
    ELSE << Float32Value(SubSeq(blob, 1, 4)) >>
         \o frombuffer(SubSeq(blob, 5, Len(blob)))

(* ----------------------------- the dataset ----------------------------- *)

\* what a dataset row holds besides its id: a title, a text and the two
\* embeddings (lists of VECTOR_DIM floats)
Variants ==
    { [title |-> "art",     text |-> "modern art",
       title_vector |-> <<1, 0>>, content_vector |-> <<0, 1>>],
      [title |-> "pop art", text |-> "pop",
       title_vector |-> <<1, 1>>, content_vector |-> <<-1, 1>>] }

\* one row of article_df, as documents.to_dict("records") yields it
Row(id, v) ==
    [id             |-> id,
     url            |-> "https://w/" \o ToString(id),
     title          |-> v.title,
     text           |-> v.text,
     title_vector   |-> v.title_vector,
     content_vector |-> v.content_vector,
     vector_id      |-> ToString(id - 1)]

Rows == {Row(id, v) : id \in 1..MaxId, v \in Variants}

\* the DataFrames handed to index_documents
DataFrames == SeqsUpTo(Rows, MaxDocs)

\* rows whose embeddings hold floats that float32 cannot hold exactly (more
\* than 24 significant bits) next to floats it can
WideVariants ==
    { [title |-> "art",     text |-> "modern art",
       title_vector   |-> <<16777217, -33554435>>,
       content_vector |-> <<3, 16777219>>],
      [title |-> "pop art", text |-> "pop",
       title_vector   |-> <<-1, 33554431>>,
       content_vector |-> <<-16777217, 0>>] }

WideRows == {Row(id, v) : id \in 1..MaxId, v \in WideVariants}

WideDataFrames == SeqsUpTo(WideRows, MaxDocs)

\* The five vectors of the cosine scenario: [1,0,0], [0,1,0], [0,0,1],
\* [0.9,0.1,0] and [0,0.9,0.1].  The last two are held in tenths; the cosine
\* distance of two vectors does not depend on their lengths.
ScenarioVectors ==
    << <<1, 0, 0>>, <<0, 1, 0>>, <<0, 0, 1>>, <<9, 1, 0>>, <<0, 9, 1>> >>

\* the DataFrame of the scenario: row i holds vector i in both vector columns
ScenarioRecords ==
    [i \in DOMAIN ScenarioVectors |->
        Row(i, [title          |-> IF i % 2 = 1 THEN "art" ELSE "pop art",
                text           |-> IF i % 2 = 1 THEN "modern art" ELSE "pop",
                title_vector   |-> ScenarioVectors[i],
                content_vector |-> ScenarioVectors[i]])]

\* the DataFrames of the scenario: all its rows at once, or some of them
ScenarioDataFrames ==
    {ScenarioRecords} \cup SeqsUpTo(Range(ScenarioRecords), MaxDocs)

(* ------------------------------ the state ------------------------------ *)

VARIABLES
    store,      \* the key space of the Redis database: key -> hash
    indexes,    \* the search indexes of the database: name -> definition
    out         \* what the cell or call that has just run did; op "none"
                \* once the notebook is idle again

vars == <<store, indexes, out>>

\* the notebook runs one cell at a time
Idle == out.op = "none"

(* -------------------------- index provisioning ------------------------- *)

\* fields = [title, url, text, title_embedding, text_embedding] and the
\* IndexDefinition of the create_index call
Schema(metric) ==
    [prefix        |-> PREFIX,
     index_type    |-> "HASH",
     text_fields   |-> {"title", "url", "text"},
     vector_fields |-> {"title_vector", "content_vector"},
     algorithm     |-> "FLAT",
     type          |-> "FLOAT32",
     dim           |-> VECTOR_DIM,
     metric        |-> metric]

\* the schemas the runs of the notebook define
Schemas == {Schema(metric) : metric \in Metrics}

\* the schema of the cosine scenario: VECTOR_DIM is the length of the first
\* title_vector of the DataFrame
ScenarioSchema ==
    [Schema("COSINE") EXCEPT !.dim = Len(ScenarioRecords[1].title_vector)]

\* redis_client.ft(INDEX_NAME).info(): "ok", or what it raises
ft_info(idx, name, unreachable) ==
    IF unreachable THEN "ConnectionError"
    ELSE IF name \in DOMAIN idx THEN "ok"
    ELSE "Unknown index name"

\* redis_client.ft(INDEX_NAME).create_index(...): the indexes after it and
\* "ok", or what it raises
ft_create_index(idx, name, schema, unreachable) ==
    IF unreachable THEN [indexes |-> idx, result |-> "ConnectionError"]
    ELSE IF name \in DOMAIN idx
         THEN [indexes |-> idx, result |-> "Index already exists"]
    ELSE [indexes |-> [n \in DOMAIN idx \cup {name} |->
                          IF n = name THEN schema ELSE idx[n]],
          result  |-> "ok"]

\* ensure_index with create_index moved out of the except branch: it is called
\* on every run
ensure_index_always_creates(idx, schema, probeDown, createDown) ==
    LET probe == ft_info(idx, INDEX_NAME, probeDown)
        c     == ft_create_index(idx, INDEX_NAME, schema, createDown)
    IN [indexes |-> c.indexes, probe |-> probe, create_called |-> TRUE,
        create_result |-> c.result, raised |-> c.result # "ok",
        printed |-> IF probe = "ok" THEN <<"Index already exists">> ELSE << >>]

\* ensure_index with "except ResponseError": only the not-found answer leads to
\* create_index, any other error of info() propagates
ensure_index_narrow_except(idx, schema, probeDown, createDown) ==
    LET probe == ft_info(idx, INDEX_NAME, probeDown)
    IN IF probe = "ok"
       THEN [indexes |-> idx, probe |-> probe, create_called |-> FALSE,
             create_result |-> "not called", raised |-> FALSE,
             printed |-> <<"Index already exists">>]
       ELSE IF probe # "Unknown index name"
       THEN [indexes |-> idx, probe |-> probe, create_called |-> FALSE,
             create_result |-> "not called", raised |-> TRUE,
             printed |-> << >>]
       ELSE LET c == ft_create_index(idx, INDEX_NAME, schema, createDown)
            IN [indexes |-> c.indexes, probe |-> probe, create_called |-> TRUE,
                create_result |-> c.result, raised |-> c.result # "ok",
                printed |-> << >>]

\* ensure_index whose except branch drops the index before it creates it
ensure_index_recreates(idx, schema, probeDown, createDown) ==
    LET probe == ft_info(idx, INDEX_NAME, probeDown)
    IN IF probe = "ok"
       THEN [indexes |-> idx, probe |-> probe, create_called |-> FALSE,
             create_result |-> "not called", raised |-> FALSE,
             printed |-> <<"Index already exists">>]
       ELSE LET dropped == [n \in DOMAIN idx \ {INDEX_NAME} |-> idx[n]]
                c == ft_create_index(IF createDown THEN idx ELSE dropped,
                                     INDEX_NAME, schema, createDown)
            IN [indexes |-> c.indexes, probe |-> probe, create_called |-> TRUE,
                create_result |-> c.result, raised |-> c.result # "ok",
                printed |-> << >>]

\* ensure_index that replaces an index whose definition is not the one asked
\* for
ensure_index_reconciles(idx, schema, probeDown, createDown) ==
    LET probe == ft_info(idx, INDEX_NAME, probeDown)
    IN IF probe = "ok"
       THEN [indexes |-> [idx EXCEPT ![INDEX_NAME] = schema], probe |-> probe,
             create_called |-> FALSE, create_result |-> "not called",
             raised |-> FALSE, printed |-> <<"Index already exists">>]
       ELSE LET c == ft_create_index(idx, INDEX_NAME, schema, createDown)
            IN [indexes |-> c.indexes, probe |-> probe, create_called |-> TRUE,
                create_result |-> c.result, raised |-> c.result # "ok",
                printed |-> << >>]

\* The cell "Check if index exists": try info(); except: create_index(...).
\* probeDown and createDown say whether the store is unreachable for the call.
ensure_index(idx, schema, probeDown, createDown) ==
    LET probe == ft_info(idx, INDEX_NAME, probeDown)
    IN IF probe = "ok"
       THEN [indexes |-> idx, probe |-> probe, create_called |-> FALSE,
             create_result |-> "not called", raised |-> FALSE,
             printed |-> <<"Index already exists">>]
       ELSE LET c == ft_create_index(idx, INDEX_NAME, schema, createDown)
            IN [indexes |-> c.indexes, probe |-> probe, create_called |-> TRUE,
                create_result |-> c.result, raised |-> c.result # "ok",
                printed |-> << >>]

\* The provisioning cell is run with one of the given schemas, from the idle
\* notebook or right after a run
\* of the same cell, whose outcome it then keeps as prev.
Provision(schemas) ==
    /\ Idle \/ out.op = "provision"
    /\ \E schema \in schemas, probeDown \in BOOLEAN, createDown \in BOOLEAN :
        LET r   == ensure_index(indexes, schema, probeDown, createDown)
            run == [schema        |-> schema,
                    existed       |-> INDEX_NAME \in DOMAIN indexes,
                    probe         |-> r.probe,
                    create_called |-> r.create_called,
                    create_result |-> r.create_result,
                    raised        |-> r.raised]
        IN /\ indexes' = r.indexes
           /\ out' = [op      |-> "provision",
                      run     |-> run,
                      before  |-> indexes,
                      printed |-> r.printed,
                      prev    |-> IF Idle THEN << >> ELSE << out.run >>]
           /\ UNCHANGED store

(* ------------------------------ ingestion ------------------------------ *)

\* a key made from the row's vector_id column
StorageKey_by_vector_id(prefix, doc) == prefix \o ":" \o doc.vector_id

\* key = f"{prefix}:{str(doc['id'])}"
StorageKey(prefix, doc) == prefix \o ":" \o ToString(doc.id)

\* byte vectors that start with the number of floats they hold
ByteVectorDoc_length_prefixed(doc) ==
    [doc EXCEPT
        !.title_vector   = << Len(doc.title_vector) >>
                              \o tobytes(doc.title_vector),
        !.content_vector = << Len(doc.content_vector) >>
                              \o tobytes(doc.content_vector)]

\* the doc with its two lists of floats replaced by byte vectors
ByteVectorDoc(doc) ==
    [doc EXCEPT !.title_vector   = tobytes(doc.title_vector),
                !.content_vector = tobytes(doc.content_vector)]

\* what the client sends for a field value: bytes and strings as they are, an
\* int as its decimal string
Encoded(field, value) == IF field = "id" THEN ToString(value) ELSE value

\* a write that leaves a key that already holds a hash as it is
hset_if_absent(st, key, mapping) ==
    IF key \in DOMAIN st THEN st
    ELSE [k \in DOMAIN st \cup {key} |->
             IF k # key THEN st[k]
             ELSE [f \in DOMAIN mapping |-> Encoded(f, mapping[f])]]

\* HSET key field value [field value ...]: sets the given fields of the hash at
\* key, creating it when absent, and leaves its other fields
hset(st, key, mapping) ==
    [k \in DOMAIN st \cup {key} |->
        IF k # key THEN st[k]
        ELSE [f \in (IF key \in DOMAIN st THEN DOMAIN st[key] ELSE {})
                    \cup DOMAIN mapping |->
                 IF f \in DOMAIN mapping THEN Encoded(f, mapping[f])
                 ELSE st[key][f]]]

\* The for loop of index_documents from record i on.  calls are the hset calls
\* issued so far; the failAt-th of them raises (0: none does), which ends the
\* function.
RECURSIVE index_documents_from(_, _, _, _, _, _)
index_documents_from(i, st, prefix, records, failAt, calls) ==
    IF i > Len(records)
    THEN [store |-> st, calls |-> calls, raised |-> FALSE]
    ELSE LET key     == StorageKey(prefix, records[i])
             doc     == ByteVectorDoc(records[i])
             issued  == Append(calls, [key |-> key, mapping |-> doc])
         IN IF Len(issued) = failAt
            THEN [store |-> st, calls |-> issued, raised |-> TRUE]
            ELSE index_documents_from(i + 1, hset(st, key, doc), prefix,
                                      records, failAt, issued)

\* index_documents with the hset call in "try: ... except: pass": the write
\* that fails is skipped and the loop goes on
index_documents_swallowing(st, prefix, documents, failAt) ==
    LET kept == SelectSeq([i \in DOMAIN documents |->
                              [n |-> i, doc |-> documents[i]]],
                          LAMBDA e : e.n # failAt)
        r    == index_documents_from(1, st, prefix,
                                     [i \in DOMAIN kept |-> kept[i].doc],
                                     0, << >>)
    IN [store  |-> r.store,
        calls  |-> [i \in DOMAIN documents |->
                       [key     |-> StorageKey(prefix, documents[i]),
                        mapping |-> ByteVectorDoc(documents[i])]],
        raised |-> FALSE]

index_documents(st, prefix, documents, failAt) ==
    index_documents_from(1, st, prefix, documents, failAt, << >>)

IndexDocuments(frames) ==
    /\ Idle
    /\ \E documents \in frames :
      \E failAt \in 0..Len(documents) :
        LET r == index_documents(store, PREFIX, documents, failAt)
        IN /\ store' = r.store
           /\ out' = [op        |-> "index_documents",
                      prefix    |-> PREFIX,
                      documents |-> documents,
                      before    |-> store,
                      failAt    |-> failAt,
                      calls     |-> r.calls,
                      raised    |-> r.raised]
           /\ UNCHANGED indexes

(* ------------------------ concurrent ingestion ------------------------- *)

\* Two callers run index_documents at the same time, each on its own version
\* of the articles: the rows with the caller's title, no id twice.
CallerTitles == << "art", "pop art" >>

CallerFrames(c) ==
    {f \in SeqsUpTo({r \in Rows : r.title = CallerTitles[c]}, MaxDocs) :
        /\ f # << >>
        /\ \A i, j \in DOMAIN f : i # j => f[i].id # f[j].id}

\* writes of a record that send the text fields and the vector fields in two
\* commands
HsetCommands_split(prefix, doc) ==
    LET mapping == ByteVectorDoc(doc)
        vectors == {"title_vector", "content_vector"}
    IN << [key     |-> StorageKey(prefix, doc),
           mapping |-> [f \in DOMAIN mapping \ vectors |-> mapping[f]]],
          [key     |-> StorageKey(prefix, doc),
           mapping |-> [f \in vectors |-> mapping[f]]] >>

\* the commands one pass of the for loop sends to the store: one HSET with the
\* whole mapping
HsetCommands(prefix, doc) ==
    << [key |-> StorageKey(prefix, doc), mapping |-> ByteVectorDoc(doc)] >>

\* both callers enter index_documents
StartConcurrent ==
    /\ Idle
    /\ \E d1 \in CallerFrames(1), d2 \in CallerFrames(2) :
          out' = [op        |-> "concurrent",
                  prefix    |-> PREFIX,
                  documents |-> << d1, d2 >>,
                  pc        |-> [c \in 1..2 |-> [record |-> 1, sent |-> 0]],
                  last      |-> EmptyMap,
                  before    |-> store]
    /\ UNCHANGED <<store, indexes>>

\* one caller's next command reaches the store, which runs it in one piece;
\* last keeps, for each key, the caller and the record of the latest command
HsetStep ==
    /\ out.op = "concurrent"
    /\ \E c \in 1..2 :
          LET docs == out.documents[c]
              p    == out.pc[c]
          IN /\ p.record <= Len(docs)
             /\ LET cmds == HsetCommands(out.prefix, docs[p.record])
                    cmd  == cmds[p.sent + 1]
                    next == IF p.sent + 1 = Len(cmds)
                            THEN [record |-> p.record + 1, sent |-> 0]
                            ELSE [record |-> p.record, sent |-> p.sent + 1]
                    who  == [caller |-> c, doc |-> docs[p.record]]
                IN /\ store' = hset(store, cmd.key, cmd.mapping)
                   /\ out' = [out EXCEPT
                                 !.pc[c] = next,
                                 !.last  = [k \in DOMAIN out.last \cup {cmd.key}
                                               |-> IF k = cmd.key THEN who
                                                   ELSE out.last[k]]]
    /\ UNCHANGED indexes

\* both callers have returned
ReturnConcurrent ==
    /\ out.op = "concurrent"
    /\ \A c \in 1..2 : out.pc[c].record > Len(out.documents[c])
    /\ out' = [op |-> "none"]
    /\ UNCHANGED <<store, indexes>>

(* ------------------------- the store's search ------------------------- *)

StartsWith(str, prefix) ==
    Len(str) >= Len(prefix) /\ SubSeq(str, 1, Len(prefix)) = prefix

\* the words of a text, split at the blanks
RECURSIVE WordsFrom(_, _, _)
WordsFrom(str, start, i) ==
    IF i > Len(str)
    THEN IF start < i THEN << SubSeq(str, start, i - 1) >> ELSE << >>
    ELSE IF SubSeq(str, i, i) = " "
         THEN (IF start < i THEN << SubSeq(str, start, i - 1) >> ELSE << >>)
              \o WordsFrom(str, i + 1, i + 1)
         ELSE WordsFrom(str, start, i + 1)

Words(str) == WordsFrom(str, 1, 1)

\* @field:"phrase": the words of the phrase occur in the text, adjacent and in
\* order
PhraseMatch(text, phrase) ==
    LET t == Words(text)
        p == Words(phrase)
    IN \E i \in 0..(Len(t) - Len(p)) : SubSeq(t, i + 1, i + Len(p)) = p

\* the query texts of dialect 2 the model's store understands: a filter, then
\* =>[KNN k @field $param AS alias]
FilterSyntax(f) ==
    IF f.all THEN "*" ELSE "@" \o f.field \o ":\"" \o f.phrase \o "\""

KnnSyntax(f, k, field) ==
    FilterSyntax(f) \o "=>[KNN " \o ToString(k) \o " @" \o field
                    \o " $vector AS vector_score]"

Phrases == {"art", "pop art", "zen"}

Filters == {[all |-> TRUE, field |-> "", phrase |-> ""]}
           \cup {[all |-> FALSE, field |-> f, phrase |-> p] :
                    f \in {"title", "url", "text"}, p \in Phrases}

Grammar ==
    {[text |-> KnnSyntax(f, k, vf), filter |-> f, k |-> k, field |-> vf] :
        f \in Filters, k \in 0..(MaxK + 1),
        vf \in {"title_vector", "content_vector"}}

Dot(u, v) == IF Len(u) = 0 THEN 0
             ELSE LET n == Len(u)
                      S[i \in 0..n] == IF i = 0 THEN 0 ELSE S[i - 1] + u[i] * v[i]
                  IN S[n]

\* the largest t in lo..hi with t * t * n <= x
RECURSIVE RootFloor(_, _, _, _)
RootFloor(x, n, lo, hi) ==
    IF lo >= hi THEN lo
    ELSE LET mid == (lo + hi + 1) \div 2
         IN IF mid * mid * n <= x THEN RootFloor(x, n, mid, hi)
            ELSE RootFloor(x, n, lo, mid - 1)

\* the largest b in lo..hi with (200 * a * b + b * b) * n <= x
RECURSIVE RootDigits(_, _, _, _, _)
RootDigits(x, n, a, lo, hi) ==
    IF lo >= hi THEN lo
    ELSE LET mid == (lo + hi + 1) \div 2
         IN IF (200 * a * mid + mid * mid) * n <= x
            THEN RootDigits(x, n, a, mid, hi)
            ELSE RootDigits(x, n, a, lo, mid - 1)

\* floor(Scale * d / sqrt(n)) for 0 <= d * d <= n, n in 1..1000: two decimal
\* digits first, then two more
CosineUnits(d, n) ==
    LET a   == RootFloor(10000 * d * d, n, 0, 100)
        rem == 10000 * d * d - a * a * n
    IN 100 * a + RootDigits(10000 * rem, n, a, 0, 99)

\* the distance the index reports between two vectors, in 1/Scale: COSINE is
\* 1 - cos, IP is 1 - u.v, L2 is the squared Euclidean distance
Distance(metric, u, v) ==
    IF metric = "COSINE"
    THEN LET d == Dot(u, v)
             n == Dot(u, u) * Dot(v, v)
         IN IF n = 0 THEN Scale
            ELSE IF d >= 0 THEN Scale - CosineUnits(d, n)
            ELSE Scale + CosineUnits(-d, n)
    ELSE IF metric = "IP" THEN Scale * (1 - Dot(u, v))
    ELSE Scale * (Dot(u, u) - 2 * Dot(u, v) + Dot(v, v))

\* the keys an index covers: hashes under its prefix whose blob in the vector
\* field has the index's dimension
Indexed(st, schema, field) ==
    {key \in DOMAIN st :
        /\ StartsWith(key, schema.prefix)
        /\ field \in DOMAIN st[key]
        /\ Len(st[key][field]) = 4 * schema.dim}

\* the sequences without repetition of n elements of S
Arrangements(S, n) ==
    {sq \in [1..n -> S] : \A i, j \in 1..n : i # j => sq[i] # sq[j]}

\* redis_client.ft(index_name).search(query, params_dict): an error, or the
\* result sequences the store may answer (which one, when distances tie, is
\* the store's choice)
ft_search(st, idx, index_name, query, params) ==
    IF index_name \notin DOMAIN idx
    THEN [error |-> "no such index", results |-> {}]
    ELSE IF \A g \in Grammar : g.text # query.query_string
    THEN [error |-> "Syntax error", results |-> {}]
    ELSE
      LET schema == idx[index_name]
          g      == CHOOSE g \in Grammar : g.text = query.query_string
          qv     == frombuffer(params.vector)
      IN IF \/ g.field \notin schema.vector_fields
            \/ (~g.filter.all /\ g.filter.field \notin schema.text_fields)
            \/ Len(params.vector) # 4 * schema.dim
            \/ g.k < 1
         THEN [error |-> "Error parsing query", results |-> {}]
         ELSE
           LET cands == {key \in Indexed(st, schema, g.field) :
                            g.filter.all
                            \/ /\ g.filter.field \in DOMAIN st[key]
                               /\ PhraseMatch(st[key][g.filter.field],
                                              g.filter.phrase)}
               dist  == [key \in cands |->
                            Distance(schema.metric,
                                     frombuffer(st[key][g.field]), qv)]
               n     == IF Cardinality(cands) < g.k THEN Cardinality(cands)
                        ELSE g.k
               \* KNN: n candidates none of which is farther than one left out
               knn   == {sq \in Arrangements(cands, n) :
                            \A key \in cands \ Range(sq) :
                                \A i \in 1..n : dist[sq[i]] <= dist[key]}
               \* SORTBY vector_score ASC or DESC
               sorted == {sq \in knn :
                            \A i \in 1..(n - 1) :
                                IF query.sortby.asc
                                THEN dist[sq[i]] <= dist[sq[i + 1]]
                                ELSE dist[sq[i]] >= dist[sq[i + 1]]}
               \* LIMIT offset num
               page(sq) == SubSeq(sq, query.paging.offset + 1,
                                  IF query.paging.offset + query.paging.num < n
                                  THEN query.paging.offset + query.paging.num
                                  ELSE n)
               doc(key) == [id           |-> key,
                            title        |-> st[key].title,
                            url          |-> st[key].url,
                            text         |-> st[key].text,
                            vector_score |-> dist[key]]
           IN [error   |-> "",
               results |-> {[i \in DOMAIN page(sq) |-> doc(page(sq)[i])] :
                               sq \in sorted}]

(* ------------------------------- search -------------------------------- *)

\* what openai.Embedding.create may answer for a user query
Embeddings == {<<1, 0>>, <<1, 2>>}

\* answers with floats that float32 cannot hold exactly: the vectors of the
\* rows with wide floats
WideEmbeddings ==
    {v.title_vector : v \in WideVariants}
        \cup {v.content_vector : v \in WideVariants}

\* the query vectors of the cosine scenario
ScenarioEmbeddings == {<<1, 0, 0>>, <<0, 1, 0>>}

create_hybrid_field(field_name, value) ==
    "@" \o field_name \o ":\"" \o value \o "\""

\* the arguments of the create_hybrid_field calls
HybridArgs == {<<"title", "art">>, <<"title", "pop art">>,
               <<"title", "zen">>, <<"text", "art">>}

\* a base_query whose KNN clause is over title_vector whatever vector_field is
base_query_over_title_vector(hybrid_fields, k, vector_field) ==
    hybrid_fields \o "=>[KNN " \o ToString(k)
                  \o " @title_vector $vector AS vector_score]"

\* a base_query that leaves the filter out
base_query_unfiltered(hybrid_fields, k, vector_field) ==
    "*=>[KNN " \o ToString(k) \o " @" \o vector_field
               \o " $vector AS vector_score]"

\* base_query and the Query built from it
base_query(hybrid_fields, k, vector_field) ==
    hybrid_fields \o "=>[KNN " \o ToString(k) \o " @" \o vector_field
                  \o " $vector AS vector_score]"

\* the Query with sort_by("vector_score", asc=False)
search_query_descending(hybrid_fields, k, vector_field, return_fields) ==
    [query_string  |-> base_query(hybrid_fields, k, vector_field),
     return_fields |-> return_fields,
     sortby        |-> [field |-> "vector_score", asc |-> FALSE],
     paging        |-> [offset |-> 0, num |-> k],
     dialect       |-> 2]

\* the Query with paging(1, k)
search_query_paging_from_one(hybrid_fields, k, vector_field, return_fields) ==
    [query_string  |-> base_query(hybrid_fields, k, vector_field),
     return_fields |-> return_fields,
     sortby        |-> [field |-> "vector_score", asc |-> TRUE],
     paging        |-> [offset |-> 1, num |-> k],
     dialect       |-> 2]

search_query(hybrid_fields, k, vector_field, return_fields) ==
    [query_string  |-> base_query(hybrid_fields, k, vector_field),
     return_fields |-> return_fields,
     sortby        |-> [field |-> "vector_score", asc |-> TRUE],
     paging        |-> [offset |-> 0, num |-> k],
     dialect       |-> 2]

\* a params_dict whose floats are laid out most significant byte first
params_dict_big_endian(embedded_query) ==
    LET b == tobytes(embedded_query)
    IN [vector |-> [i \in DOMAIN b |->
                       b[4 * ((i - 1) \div 4) + 4 - ((i - 1) % 4)]]]

\* params_dict = {"vector": np.array(embedded_query).astype(np.float32).tobytes()}
params_dict(embedded_query) == [vector |-> tobytes(embedded_query)]

\* round(x, 3) of a number of 1/Scale: to the nearest RoundUnit, a tie to the
\* even one
round3(x) ==
    LET q == x \div RoundUnit
        r == x % RoundUnit
    IN IF 2 * r > RoundUnit \/ (2 * r = RoundUnit /\ q % 2 = 1)
       THEN (q + 1) * RoundUnit
       ELSE q * RoundUnit

\* lines that show the distance instead of the score
printed_lines_raw_distance(docs) ==
    [i \in DOMAIN docs |->
        [i     |-> i - 1,
         title |-> docs[i].title,
         score |-> round3(docs[i].vector_score)]]

\* the lines the for loop prints: i, the title and round(1 - vector_score, 3)
printed_lines(docs) ==
    [i \in DOMAIN docs |->
        [i     |-> i - 1,
         title |-> docs[i].title,
         score |-> round3(Scale - docs[i].vector_score)]]

\* a search_redis that, when the embedding service fails, queries the store
\* with a zero vector instead
search_redis_with_fallback(st, idx, embedding, index_name, vector_field, return_fields, hybrid_fields, k) ==
    LET used   == IF embedding = << >> THEN [n \in 1..VECTOR_DIM |-> 0]
                  ELSE embedding
        query  == search_query(hybrid_fields, k, vector_field, return_fields)
        r      == ft_search(st, idx, index_name, query, params_dict(used))
    IN IF r.error # ""
       THEN {[calls |-> << "embedding", "search" >>,
              bound |-> << params_dict(used) >>, raised |-> TRUE,
              error |-> r.error, results |-> << >>, printed |-> << >>,
              returned |-> << >>]}
       ELSE {[calls |-> << "embedding", "search" >>,
              bound |-> << params_dict(used) >>, raised |-> FALSE,
              error |-> "", results |-> docs,
              printed |-> printed_lines(docs), returned |-> docs] :
                docs \in r.results}

\* search_redis(redis_client, user_query, index_name, vector_field,
\* return_fields, hybrid_fields, k): what a call may do.  embedding is the
\* embedding service's answer to user_query, << >> when that call raises;
\* bound holds the params_dict handed to the store, if the call got there.
search_redis(st, idx, embedding, index_name, vector_field, return_fields, hybrid_fields, k) ==
    IF embedding = << >>
    THEN {[calls |-> << "embedding" >>, bound |-> << >>, raised |-> TRUE,
           error |-> "embedding", results |-> << >>, printed |-> << >>,
           returned |-> << >>]}
    ELSE
      LET query  == search_query(hybrid_fields, k, vector_field, return_fields)
          params == params_dict(embedding)
          r      == ft_search(st, idx, index_name, query, params)
      IN IF r.error # ""
         THEN {[calls |-> << "embedding", "search" >>, bound |-> << params >>,
                raised |-> TRUE,
                error |-> r.error, results |-> << >>, printed |-> << >>,
                returned |-> << >>]}
         ELSE {[calls |-> << "embedding", "search" >>, bound |-> << params >>,
                raised |-> FALSE,
                error |-> "", results |-> docs,
                printed |-> printed_lines(docs), returned |-> docs] :
                  docs \in r.results}

\* a search_redis call of the notebook, the embedding service answering with
\* one of the given embeddings or failing: the default hybrid_fields "*" (filter
\* << >>) or create_hybrid_field(field, value)
SearchRedis(embeddings) ==
    /\ Idle
    /\ \E k \in 1..MaxK,
       vector_field \in {"title_vector", "content_vector"},
       filter \in {<< >>} \cup HybridArgs,
       embedding \in embeddings \cup {<< >>} :
      LET hybrid_fields == IF filter = << >> THEN "*"
                           ELSE create_hybrid_field(filter[1], filter[2])
      IN \E r \in search_redis(store, indexes, embedding, INDEX_NAME,
                               vector_field, RETURN_FIELDS, hybrid_fields, k) :
           /\ out' = [op            |-> "search",
                      k             |-> k,
                      vector_field  |-> vector_field,
                      filter        |-> filter,
                      hybrid_fields |-> hybrid_fields,
                      embedding     |-> embedding,
                      calls         |-> r.calls,
                      bound         |-> r.bound,
                      raised        |-> r.raised,
                      error         |-> r.error,
                      results       |-> r.results,
                      printed       |-> r.printed,
                      returned      |-> r.returned]
           /\ UNCHANGED <<store, indexes>>

\* the cell has run: the notebook is idle again
Return ==
    /\ ~Idle
    /\ out' = [op |-> "none"]
    /\ UNCHANGED <<store, indexes>>

(* -------------------------- the specification -------------------------- *)

Init ==
    /\ store = EmptyMap
    /\ indexes = EmptyMap
    /\ out = [op |-> "none"]

Next ==
    \/ Provision(Schemas)
    \/ IndexDocuments(DataFrames)
    \/ SearchRedis(Embeddings)
    \/ Return

Spec == Init /\ [][Next]_vars

\* the ingestion of rows with wide floats, for the byte layout of the vectors
NextCodec ==
    \/ IndexDocuments(WideDataFrames)
    \/ Return

SpecCodec == Init /\ [][NextCodec]_vars

\* ingestion and search with wide floats, on a database without the index
\* (the store refuses the query once it has received it)
NextQueryCodec ==
    \/ IndexDocuments(WideDataFrames)
    \/ SearchRedis(WideEmbeddings)
    \/ Return

SpecQueryCodec == Init /\ [][NextQueryCodec]_vars

\* two callers of index_documents at a time
NextConcurrent ==
    \/ StartConcurrent
    \/ HsetStep
    \/ ReturnConcurrent

SpecConcurrent == Init /\ [][NextConcurrent]_vars

\* the notebook run on the DataFrame of the cosine scenario
NextScenario ==
    \/ Provision({ScenarioSchema})
    \/ IndexDocuments(ScenarioDataFrames)
    \/ SearchRedis(ScenarioEmbeddings)
    \/ Return

SpecScenario == Init /\ [][NextScenario]_vars

(* ======================= provisioning: C1, C9, C10 ======================= *)

\* the store answered every call of the provisioning run
Answered(run) ==
    run.probe # "ConnectionError" /\ run.create_result # "ConnectionError"

\* two provisioning runs in sequence, the first on a store without the index,
\* both answered by the store, both with the same schema
TwoRunsUnchangedSchema ==
    /\ out.op = "provision"
    /\ out.prev # << >>
    /\ ~out.prev[1].existed
    /\ Answered(out.prev[1])
    /\ Answered(out.run)
    /\ out.run.schema = out.prev[1].schema

(* C1: provisioning is idempotent for an unchanged schema.  After two runs in
   sequence with the same schema, started without the index and answered by
   the store, there is exactly one index of the name, with that schema;
   create_index was called by the first run and not by the second; neither
   run raised. *)
C1_ProvisioningIdempotent ==
    TwoRunsUnchangedSchema =>
        /\ DOMAIN indexes = {INDEX_NAME}
        /\ indexes[INDEX_NAME] = out.run.schema
        /\ out.prev[1].create_called
        /\ ~out.run.create_called
        /\ ~out.prev[1].raised
        /\ ~out.run.raised

C1_Witness ==
    /\ TwoRunsUnchangedSchema
    /\ out.run.existed
    /\ out.printed = <<"Index already exists">>

(* C9: in a provisioning run, every failure of the existence check, not-found
   or any other error, leads to a create_index call; create_index is called
   only after a failed check; what create_index raises is not caught. *)
C9_AnyProbeFailureCreates ==
    out.op = "provision" =>
        /\ out.run.probe # "ok" => out.run.create_called
        /\ out.run.create_called => out.run.probe # "ok"
        /\ (out.run.create_called /\ out.run.create_result # "ok")
               => out.run.raised
        /\ out.run.raised => out.run.create_called

\* the index exists, info() fails to connect, create_index is tried and raises
C9_Witness ==
    /\ out.op = "provision"
    /\ out.run.existed
    /\ out.run.probe = "ConnectionError"
    /\ out.run.create_called
    /\ out.run.create_result = "Index already exists"
    /\ out.run.raised

(* C10: when an index of the name exists, a provisioning run leaves its
   definition as it was, whatever schema the run asks for; when info() finds
   it, the run calls no create_index and raises nothing. *)
C10_ExistingIndexKept ==
    (out.op = "provision" /\ out.run.existed) =>
        /\ indexes = out.before
        /\ out.run.probe = "ok" =>
              (~out.run.create_called /\ ~out.run.raised)

\* a run that asks for another schema than the one the index has
C10_Witness ==
    /\ out.op = "provision"
    /\ out.run.existed
    /\ out.run.probe = "ok"
    /\ out.run.schema # out.before[INDEX_NAME]
    /\ indexes[INDEX_NAME] = out.before[INDEX_NAME]

(* ========================= ingestion: C3, C4, C8 ======================== *)

\* the key the spec gives a record: prefix, a colon, the id in decimal
KeyOf(prefix, doc) == prefix \o ":" \o ToString(doc.id)

\* the hash holds the record: its strings as they are, its id in decimal, its
\* two vectors as FLOAT32 blobs of the record's floats
Holds(hash, doc) ==
    /\ DOMAIN hash = DOMAIN doc
    /\ hash.id = ToString(doc.id)
    /\ hash.url = doc.url
    /\ hash.title = doc.title
    /\ hash.text = doc.text
    /\ hash.vector_id = doc.vector_id
    /\ frombuffer(hash.title_vector) = doc.title_vector
    /\ frombuffer(hash.content_vector) = doc.content_vector

\* the last of the first n records that has the id of record i
LastWithId(records, n, i) ==
    CHOOSE j \in 1..n :
        /\ records[j].id = records[i].id
        /\ \A l \in (j + 1)..n : records[l].id # records[i].id

IngestionDone == out.op = "index_documents" /\ ~out.raised

(* C3: after an ingestion that wrote all its records, every id of the records
   has exactly one entry in the store, at prefix:id, and the entry holds the
   values of the last record with that id: a record whose id was stored
   before, by this call or an earlier one, replaces what was stored. *)
C3_DuplicateIdOverwrites ==
    IngestionDone =>
        \A i \in DOMAIN out.documents :
            LET doc  == out.documents[i]
                last == out.documents[LastWithId(out.documents,
                                                 Len(out.documents), i)]
            IN /\ KeyOf(out.prefix, doc) \in DOMAIN store
               /\ Holds(store[KeyOf(out.prefix, doc)], last)
               /\ Cardinality({k \in DOMAIN store :
                                  store[k].id = ToString(doc.id)}) = 1

\* two records of one id and different values in one call, the id stored before
\* with the first record's values
C3_Witness ==
    /\ IngestionDone
    /\ \E i, j \in DOMAIN out.documents :
          /\ i < j
          /\ j = Len(out.documents)
          /\ out.documents[i].id = out.documents[j].id
          /\ out.documents[i].title # out.documents[j].title
          /\ KeyOf(out.prefix, out.documents[i]) \in DOMAIN out.before
          /\ Holds(out.before[KeyOf(out.prefix, out.documents[i])],
                   out.documents[i])
          /\ Holds(store[KeyOf(out.prefix, out.documents[i])],
                   out.documents[j])

(* C4: an ingestion that wrote all its records issued one write a record, in
   the records' order, each to prefix:id of its record; the store has an entry
   for every record; the entries written are as many as the distinct ids; no
   other key was added, removed or changed. *)
C4_OneWritePerRecord ==
    IngestionDone =>
        LET keys == {KeyOf(out.prefix, out.documents[i]) :
                        i \in DOMAIN out.documents}
            ids  == {out.documents[i].id : i \in DOMAIN out.documents}
        IN /\ Len(out.calls) = Len(out.documents)
           /\ \A i \in DOMAIN out.documents :
                 out.calls[i].key = KeyOf(out.prefix, out.documents[i])
           /\ keys \subseteq DOMAIN store
           /\ Cardinality({out.calls[i].key : i \in DOMAIN out.calls})
                 = Cardinality(ids)
           /\ DOMAIN store = DOMAIN out.before \cup keys
           /\ \A k \in DOMAIN out.before \ keys : store[k] = out.before[k]

\* three records of two ids, written next to an entry the call does not touch
C4_Witness ==
    /\ IngestionDone
    /\ Len(out.documents) = 3
    /\ Cardinality({out.documents[i].id : i \in DOMAIN out.documents}) = 2
    /\ Cardinality(DOMAIN store) = 2
    /\ \E k \in DOMAIN out.before : store[k] # out.before[k]

(* C8: when the store fails the write of the i-th record, index_documents
   raises; the failed write is its last call (no retry, no write of a later
   record); the keys of the records before the i-th hold what those records
   wrote; every other key is as it was before the call. *)
C8_WriteFailurePropagates ==
    (out.op = "index_documents" /\ out.failAt > 0) =>
        LET f       == out.failAt
            written == {KeyOf(out.prefix, out.documents[i]) : i \in 1..(f - 1)}
        IN /\ out.raised
           /\ Len(out.calls) = f
           /\ \A i \in 1..f :
                 out.calls[i].key = KeyOf(out.prefix, out.documents[i])
           /\ \A i \in 1..(f - 1) :
                 /\ KeyOf(out.prefix, out.documents[i]) \in DOMAIN store
                 /\ Holds(store[KeyOf(out.prefix, out.documents[i])],
                          out.documents[LastWithId(out.documents, f - 1, i)])
           /\ DOMAIN store = DOMAIN out.before \cup written
           /\ \A k \in DOMAIN out.before \ written : store[k] = out.before[k]

\* three records, the write of the second fails: the first is stored, the
\* second keeps its earlier values, the third is absent
C8_Witness ==
    /\ out.op = "index_documents"
    /\ out.failAt = 2
    /\ out.raised
    /\ Len(out.documents) = 3
    /\ out.documents[1].id # out.documents[2].id
    /\ out.documents[3].id = out.documents[2].id
    /\ KeyOf(out.prefix, out.documents[1]) \notin DOMAIN out.before
    /\ KeyOf(out.prefix, out.documents[1]) \in DOMAIN store
    /\ KeyOf(out.prefix, out.documents[2]) \in DOMAIN out.before
    /\ ~Holds(store[KeyOf(out.prefix, out.documents[2])], out.documents[2])
    /\ ~Holds(store[KeyOf(out.prefix, out.documents[2])], out.documents[3])

(* ================== the byte layout of the vectors: C5 ================== *)

\* y is x within the precision of float32: half a unit in the last of its 24
\* significant bits
WithinFloat32(y, x) == Abs(x - y) * Pow2(24) <= Abs(x)

\* the blob holds the floats of v, each within float32 precision
RoundTrips(blob, v) ==
    /\ Len(blob) = 4 * Len(v)
    /\ Len(frombuffer(blob)) = Len(v)
    /\ \A n \in DOMAIN v : WithinFloat32(frombuffer(blob)[n], v[n])

(* C5: the bytes index_documents writes for a vector, read back as FLOAT32
   values, are the record's floats within float32 precision, element by
   element, in both vector fields, in what is sent and in what the store
   holds. *)
C5_Float32RoundTrip ==
    out.op = "index_documents" =>
        \A i \in DOMAIN out.calls :
            LET doc == out.documents[i]
                m   == out.calls[i].mapping
            IN /\ RoundTrips(m.title_vector, doc.title_vector)
               /\ RoundTrips(m.content_vector, doc.content_vector)
               /\ (~out.raised /\ LastWithId(out.documents, Len(out.documents), i) = i)
                     => /\ RoundTrips(store[out.calls[i].key].title_vector,
                                      doc.title_vector)
                        /\ RoundTrips(store[out.calls[i].key].content_vector,
                                      doc.content_vector)

\* a stored float that is not the record's float, and one that is
C5_Witness ==
    /\ IngestionDone
    /\ \E i \in DOMAIN out.documents :
          LET doc == out.documents[i]
              got == frombuffer(store[out.calls[i].key].title_vector)
          IN /\ LastWithId(out.documents, Len(out.documents), i) = i
             /\ doc.title_vector = <<16777217, -33554435>>
             /\ got = <<16777216, -33554436>>

(* ========================== search: C2, C6, C7 ========================== *)

SearchDone == out.op = "search" /\ ~out.raised

(* C2: a search_redis call that returns, returns at most k results, in order
   of non-decreasing vector_score; the scores it shows are in non-increasing
   order. *)
C2_AtMostKAscending ==
    SearchDone =>
        /\ Len(out.returned) <= out.k
        /\ \A i \in 1..(Len(out.returned) - 1) :
              /\ out.returned[i].vector_score
                    <= out.returned[i + 1].vector_score
              /\ out.printed[i].score >= out.printed[i + 1].score

\* two results at different distances
C2_Witness ==
    /\ SearchDone
    /\ out.k = 2
    /\ Len(out.returned) = 2
    /\ out.returned[1].vector_score < out.returned[2].vector_score
    /\ out.printed[1].score > out.printed[2].score

(* C6 as the spec states it: every result search_redis emits carries
   1 - vector_score, in what it returns (a normalized_score) or in what it
   shows. *)
C6_AsStated ==
    SearchDone =>
        /\ Len(out.returned) = Len(out.results)
        /\ \A i \in DOMAIN out.results :
              \/ /\ "normalized_score" \in DOMAIN out.returned[i]
                 /\ out.returned[i].normalized_score
                       = Scale - out.results[i].vector_score
              \/ out.printed[i].score = Scale - out.results[i].vector_score

(* C6, amended: for each result of the store, in the store's order,
   search_redis computes 1 - vector_score and prints the position, the title
   and that score rounded to three decimals; what it returns is the store's
   result sequence as it is, each result with its vector_score and without a
   normalized score. *)
C6_ScorePrintedRounded ==
    SearchDone =>
        /\ out.returned = out.results
        /\ Len(out.printed) = Len(out.results)
        /\ \A i \in DOMAIN out.results :
              /\ "vector_score" \in DOMAIN out.returned[i]
              /\ "normalized_score" \notin DOMAIN out.returned[i]
              /\ out.printed[i].i = i - 1
              /\ out.printed[i].title = out.results[i].title
              /\ out.printed[i].score % RoundUnit = 0
              /\ 2 * Abs(out.printed[i].score
                         - (Scale - out.results[i].vector_score)) <= RoundUnit

\* two results, the score of one not a whole number of thousandths
C6_Witness ==
    /\ SearchDone
    /\ Len(out.results) = 2
    /\ \E i \in DOMAIN out.results :
          /\ (Scale - out.results[i].vector_score) % RoundUnit # 0
          /\ out.printed[i].score # Scale - out.results[i].vector_score

\* a hybrid search of a populated, indexed store with a title filter that no
\* stored title matches, the embedding service having answered
TitleFilterMatchesNothing ==
    /\ out.op = "search"
    /\ out.filter # << >>
    /\ out.filter[1] = "title"
    /\ out.embedding # << >>
    /\ INDEX_NAME \in DOMAIN indexes
    /\ store # EmptyMap
    /\ \A key \in DOMAIN store : ~PhraseMatch(store[key].title, out.filter[2])

(* C7: a hybrid search whose title filter matches none of the stored titles
   returns the empty sequence and raises nothing, for every k and every
   populated store. *)
C7_NoMatchEmptyNoError ==
    TitleFilterMatchesNothing =>
        /\ ~out.raised
        /\ out.returned = << >>
        /\ out.printed = << >>

\* the filter "pop art" over stored titles that hold the word art only
C7_Witness ==
    /\ TitleFilterMatchesNothing
    /\ out.filter[2] = "pop art"
    /\ out.k = 2
    /\ Cardinality(DOMAIN store) = 2
    /\ \A key \in DOMAIN store : store[key].title = "art"
    /\ out.returned = << >>

(* ===================== the embedding service: C11 ====================== *)

(* C11: in a search_redis call the embedding service is called first and the
   store is queried after it, once each at most; when the embedding call
   fails, search_redis raises that error, the store is not queried, the
   embedding call is not repeated, and nothing is printed or returned. *)
C11_EmbeddingFailureIsFatal ==
    out.op = "search" =>
        /\ out.calls \in {<< "embedding" >>, << "embedding", "search" >>}
        /\ out.embedding = << >> =>
              /\ out.raised
              /\ out.error = "embedding"
              /\ out.calls = << "embedding" >>
              /\ out.returned = << >>
              /\ out.printed = << >>

\* the embedding call fails in a search of an indexed store with records a
\* query would have found
C11_Witness ==
    /\ out.op = "search"
    /\ out.embedding = << >>
    /\ out.raised
    /\ out.calls = << "embedding" >>
    /\ out.filter = << >>
    /\ INDEX_NAME \in DOMAIN indexes
    /\ Cardinality(DOMAIN store) = 2

(* ======================= the hybrid query: C12 ========================= *)

\* the stored records that satisfy the filter of the search: all of them for
\* "*", those whose field holds the phrase for @field:"phrase"
Matching ==
    {key \in DOMAIN store :
        \/ out.filter = << >>
        \/ PhraseMatch(store[key][out.filter[1]], out.filter[2])}

\* the distance of a stored record's vector in the searched field to the query
\* vector, under the metric of the index
DistanceOf(key) ==
    Distance(indexes[INDEX_NAME].metric,
             frombuffer(store[key][out.vector_field]), out.embedding)

(* C12: the results of a search are records that satisfy the filter, each
   once, min(k, M) of the M stored records that satisfy it (all N stored
   records for "*"), each with its distance to the query vector in
   vector_field, and no record that satisfies the filter and was left out is
   nearer than a returned one. *)
C12_FilterAndNearest ==
    SearchDone =>
        LET ids == {out.returned[i].id : i \in DOMAIN out.returned}
            m   == Cardinality(Matching)
        IN /\ ids \subseteq Matching
           /\ Cardinality(ids) = Len(out.returned)
           /\ Len(out.returned) = IF out.k < m THEN out.k ELSE m
           /\ \A i \in DOMAIN out.returned :
                 /\ out.returned[i].vector_score = DistanceOf(out.returned[i].id)
                 /\ \A key \in Matching \ ids :
                       out.returned[i].vector_score <= DistanceOf(key)

\* two stored records, the nearer to the query vector left out by the filter:
\* the result is the farther one
C12_Witness ==
    /\ SearchDone
    /\ out.filter # << >>
    /\ out.k = 2
    /\ Cardinality(DOMAIN store) = 2
    /\ Len(out.returned) = 1
    /\ \E key \in DOMAIN store \ Matching :
          DistanceOf(key) < out.returned[1].vector_score

(* ====================== the cosine scenario: C13 ======================= *)

\* the store holds the five records of the scenario and nothing else, under
\* an index with cosine distance
ScenarioIngested ==
    /\ INDEX_NAME \in DOMAIN indexes
    /\ indexes[INDEX_NAME].metric = "COSINE"
    /\ DOMAIN store = {KeyOf(PREFIX, ScenarioRecords[i]) :
                          i \in DOMAIN ScenarioRecords}
    /\ \A i \in DOMAIN ScenarioRecords :
          Holds(store[KeyOf(PREFIX, ScenarioRecords[i])], ScenarioRecords[i])

\* a search of all records with the query vector [1,0,0] and k = 2
ScenarioQuery ==
    /\ out.op = "search"
    /\ out.embedding = <<1, 0, 0>>
    /\ out.filter = << >>
    /\ out.k = 2

(* C13: with the five records of the scenario ingested under cosine distance,
   a search with the query vector [1,0,0] and k = 2 returns two results: the
   record with [1,0,0] first, at distance 0 and shown with score 1.0, and the
   record with [0.9,0.1,0] second. *)
C13_CosineScenario ==
    (ScenarioIngested /\ ScenarioQuery) =>
        /\ ~out.raised
        /\ Len(out.returned) = 2
        /\ out.returned[1].id = KeyOf(PREFIX, ScenarioRecords[1])
        /\ out.returned[1].vector_score = 0
        /\ out.printed[1].score = Scale
        /\ out.returned[2].id = KeyOf(PREFIX, ScenarioRecords[4])
        /\ out.returned[2].vector_score > 0
        /\ \A key \in DOMAIN store \ {out.returned[1].id, out.returned[2].id} :
              DistanceOf(key) > out.returned[2].vector_score

C13_Witness ==
    /\ ScenarioIngested
    /\ ScenarioQuery
    /\ ~out.raised
    /\ Len(out.returned) = 2
    /\ frombuffer(store[out.returned[1].id][out.vector_field]) = <<1, 0, 0>>
    /\ frombuffer(store[out.returned[2].id][out.vector_field]) = <<9, 1, 0>>

(* ===================== concurrent ingestion: C14 ====================== *)

ConcurrentDone ==
    /\ out.op = "concurrent"
    /\ \A c \in 1..2 : out.pc[c].record > Len(out.documents[c])

(* C14: while and after two callers run index_documents on one store and
   prefix, the entry at every key written holds the whole record of the write
   that reached the store last for that key, never fields of two records, and
   the keys neither caller wrote are as they were. *)
C14_LastWriteWinsPerKey ==
    out.op = "concurrent" =>
        /\ \A key \in DOMAIN out.last :
              /\ key \in DOMAIN store
              /\ key = KeyOf(out.prefix, out.last[key].doc)
              /\ Holds(store[key], out.last[key].doc)
        /\ \A key \in DOMAIN store \ DOMAIN out.last :
              key \in DOMAIN out.before /\ store[key] = out.before[key]

\* both callers wrote the same two keys; in the end one key holds the first
\* caller's record and the other the second caller's
C14_Witness ==
    /\ ConcurrentDone
    /\ Len(out.documents[1]) = 2
    /\ Len(out.documents[2]) = 2
    /\ \E k1, k2 \in DOMAIN out.last :
          /\ out.last[k1].caller = 1
          /\ out.last[k2].caller = 2
          /\ store[k1].title = CallerTitles[1]
          /\ store[k2].title = CallerTitles[2]

(* ================ the bytes of the query vector: C15 =================== *)

\* the bytes index_documents writes for the vector v
StoredBytes(v) ==
    ByteVectorDoc([title_vector |-> v, content_vector |-> v]).title_vector

(* C15: the bytes search_redis binds as $vector for the embedding v are the
   bytes index_documents writes for v, four bytes a float: they equal the
   title_vector blob of every stored record whose title_vector is v (the
   title tells which row a key holds), and for v of the index dimension they
   are 4 * VECTOR_DIM long. *)
C15_QueryVectorEncodedAsStored ==
    (out.op = "search" /\ out.embedding # << >>) =>
        /\ Len(out.bound) = 1
        /\ DOMAIN out.bound[1] = {"vector"}
        /\ out.bound[1].vector = StoredBytes(out.embedding)
        /\ Len(out.bound[1].vector) = 4 * Len(out.embedding)
        /\ Len(out.embedding) = VECTOR_DIM
              => Len(out.bound[1].vector) = 4 * VECTOR_DIM
        /\ \A key \in DOMAIN store : \A r \in WideRows :
              (/\ key = KeyOf(PREFIX, r)
               /\ store[key].title = r.title
               /\ r.title_vector = out.embedding)
                 => store[key].title_vector = out.bound[1].vector

\* the query vector is the title_vector of a stored record and float32 holds
\* neither of its floats exactly
C15_Witness ==
    /\ out.op = "search"
    /\ out.embedding = <<16777217, -33554435>>
    /\ frombuffer(out.bound[1].vector) = <<16777216, -33554436>>
    /\ \E key \in DOMAIN store :
          store[key].title_vector = out.bound[1].vector

(* ================== what a record is written as: C16 ================== *)

VectorFields == {"title_vector", "content_vector"}

\* blob is v as bytes: four a float, from the first byte on
BlobOf(blob, v) ==
    /\ Len(blob) = 4 * Len(v)
    /\ \A n \in DOMAIN blob : blob[n] \in 0..255
    /\ frombuffer(blob) = v

(* C16: the mapping index_documents hands to the store for a record has the
   record's field names; title_vector and content_vector are blobs of four
   bytes a float with nothing before them; every other field has the record's
   value.  The entry of a record written last to its key has exactly those
   field names, the two blobs, and every other value as the store holds it
   (a string as it is, the id in decimal). *)
C16_OnlyVectorsReplaced ==
    out.op = "index_documents" =>
        \A i \in DOMAIN out.calls :
            LET doc == out.documents[i]
                m   == out.calls[i].mapping
                key == out.calls[i].key
            IN /\ DOMAIN m = DOMAIN doc
               /\ \A f \in VectorFields : BlobOf(m[f], doc[f])
               /\ \A f \in DOMAIN doc \ VectorFields : m[f] = doc[f]
               /\ (~out.raised
                   /\ LastWithId(out.documents, Len(out.documents), i) = i)
                     => /\ DOMAIN store[key] = DOMAIN doc
                        /\ \A f \in VectorFields : store[key][f] = m[f]
                        /\ store[key].id = ToString(doc.id)
                        /\ \A f \in DOMAIN doc \ (VectorFields \cup {"id"}) :
                              store[key][f] = doc[f]

\* a record written over an entry with other values
C16_Witness ==
    /\ IngestionDone
    /\ \E i \in DOMAIN out.documents :
          LET doc == out.documents[i]
              key == out.calls[i].key
          IN /\ LastWithId(out.documents, Len(out.documents), i) = i
             /\ key \in DOMAIN out.before
             /\ out.before[key].title # doc.title
             /\ store[key].title = doc.title
             /\ store[key].vector_id = doc.vector_id
             /\ out.calls[i].mapping.title_vector = <<0, 0, 128, 63, 0, 0, 128, 63>>
             /\ doc.title_vector = <<1, 1>>

(* ============== what each operation leaves alone: C17 ================= *)

(* C17: in every step of the notebook, an index that exists keeps its
   definition, so the definition is always the one the first successful
   create_index gave it; an index appears only by a provisioning run whose
   create_index succeeded, with the schema of that run; a search_redis call
   changes neither the stored records nor the indexes; index_documents does
   not change the indexes; provisioning does not change the stored records. *)
C17_IndexImmutableAdaptersStateless ==
    [][ /\ INDEX_NAME \in DOMAIN indexes => indexes' = indexes
        /\ indexes' # indexes =>
              /\ out'.op = "provision"
              /\ out'.run.create_result = "ok"
              /\ DOMAIN indexes' = {INDEX_NAME}
              /\ indexes'[INDEX_NAME] = out'.run.schema
        /\ out'.op = "search" => (store' = store /\ indexes' = indexes)
        /\ out'.op = "index_documents" => indexes' = indexes
        /\ out'.op = "provision" => store' = store
      ]_vars

\* records are stored and a provisioning run that asks for another schema has
\* called create_index on the existing index
C17_Witness ==
    /\ out.op = "provision"
    /\ store # EmptyMap
    /\ out.run.existed
    /\ out.run.create_called
    /\ out.run.schema.metric # out.before[INDEX_NAME].metric
    /\ indexes[INDEX_NAME].metric = out.before[INDEX_NAME].metric

====
